---------------------------- MODULE Spec2Model ----------------------------
(***************************************************************************)
(* A model of src/value.rs of xml-rpc-rs: the XML-RPC Value enum and       *)
(* Value::format, the recursive writer that renders a value as XML on an   *)
(* io::Write sink.                                                         *)
(*                                                                         *)
(* Text is modelled at the level of single characters: a byte string, a    *)
(* line of output and the content of a sink are sequences of one-character *)
(* strings, so that escaping, line structure and tag nesting are things    *)
(* the model computes rather than assumes.                                 *)
(***************************************************************************)
EXTENDS Integers, Sequences, FiniteSets, TLC

(***************************************************************************)
(* Bounds of the model.                                                    *)
(***************************************************************************)
\* Longest String / Base64 payload of a top-level scalar.
MaxLen == 2
\* Largest number of Value nodes in a container tree.
MaxNodes == 3

(***************************************************************************)
(* Cow<'a, T>: a payload that is either borrowed or owned.  Deref gives    *)
(* the same read-only view of both.                                        *)
(***************************************************************************)
Borrowed(d) == [mode |-> "Borrowed", data |-> d]

Owned(d) == [mode |-> "Owned", data |-> d]

Modes == {"Borrowed", "Owned"}

\* View as it would be if only owned data were read.
ViewOwnedOnly(c) == IF c.mode = "Owned" THEN c.data ELSE <<>>

\* Deref of a Cow.
View(c) == c.data

(***************************************************************************)
(* enum Value<'a>: the ten variants.                                       *)
(***************************************************************************)
\* Value::Int (Int is the set of integers in TLA+).
Int32(i) == [tag |-> "Int", i |-> i]

Int64(i) == [tag |-> "Int64", i |-> i]

Bool(b) == [tag |-> "Bool", b |-> b]

String(s) == [tag |-> "String", s |-> s]

Double(d) == [tag |-> "Double", d |-> d]

DateTime(dt) == [tag |-> "DateTime", dt |-> dt]

Base64(data) == [tag |-> "Base64", bytes |-> data]

Struct(map) == [tag |-> "Struct", map |-> map]

Array(array) == [tag |-> "Array", array |-> array]

Nil == [tag |-> "Nil"]

Tags == {"Int", "Int64", "Bool", "String", "Double", "DateTime", "Base64",
         "Struct", "Array", "Nil"}

(***************************************************************************)
(* The children of a value, in the order format visits them.               *)
(***************************************************************************)
Children(v) ==
    IF v.tag = "Struct" THEN [k \in 1..Len(View(v.map)) |-> View(v.map)[k][2]]
    ELSE IF v.tag = "Array" THEN View(v.array)
    ELSE <<>>

(***************************************************************************)
(* Text literals of format's writeln! calls.                               *)
(***************************************************************************)
writeln(s) == s \o <<"\n">>

TValue == <<"<", "v", "a", "l", "u", "e", ">">>

TValueEnd == <<"<", "/", "v", "a", "l", "u", "e", ">">>

TStruct == <<"<", "s", "t", "r", "u", "c", "t", ">">>

TStructEnd == <<"<", "/", "s", "t", "r", "u", "c", "t", ">">>

TMember == <<"<", "m", "e", "m", "b", "e", "r", ">">>

TMemberEnd == <<"<", "/", "m", "e", "m", "b", "e", "r", ">">>

TArray == <<"<", "a", "r", "r", "a", "y", ">">>

TArrayEnd == <<"<", "/", "a", "r", "r", "a", "y", ">">>

TData == <<"<", "d", "a", "t", "a", ">">>

TDataEnd == <<"<", "/", "d", "a", "t", "a", ">">>

TNil == <<"<", "n", "i", "l", "/", ">">>

TName == <<"<", "n", "a", "m", "e", ">">>

TNameEnd == <<"<", "/", "n", "a", "m", "e", ">">>

TString == <<"<", "s", "t", "r", "i", "n", "g", ">">>

TStringEnd == <<"<", "/", "s", "t", "r", "i", "n", "g", ">">>

(***************************************************************************)
(* The {} (Display) conversions of the scalars.                            *)
(***************************************************************************)
DigitChar(d) == <<"0", "1", "2", "3", "4", "5", "6", "7", "8", "9">>[d + 1]

RECURSIVE DecNat(_)
DecNat(n) ==
    IF n < 10 THEN <<DigitChar(n)>>
    ELSE DecNat(n \div 10) \o <<DigitChar(n % 10)>>

\* Display of i32 / i64: canonical signed decimal.
DisplayInt(i) == IF i < 0 THEN <<"-">> \o DecNat(0 - i) ELSE DecNat(i)

\* Display of f64.  A double is [cls, neg, int, frac]: NaN, an infinity, or
\* a finite number with integer part int and decimal digits frac.
DisplayDouble(d) ==
    IF d.cls = "nan" THEN <<"N", "a", "N">>
    ELSE (IF d.neg THEN <<"-">> ELSE <<>>) \o
         (IF d.cls = "inf" THEN <<"i", "n", "f">>
          ELSE DecNat(d.int) \o
               (IF d.frac = <<>> THEN <<>>
                ELSE <<".">> \o [k \in 1..Len(d.frac) |-> DigitChar(d.frac[k])]))

\* n in decimal, zero-padded to w digits.
RECURSIVE Pad(_, _)
Pad(n, w) ==
    IF w = 0 THEN <<>> ELSE Pad(n \div 10, w - 1) \o <<DigitChar(n % 10)>>

\* utils::format_datetime: the dateTime.iso8601 text of XML-RPC.
format_datetime(dt) ==
    Pad(dt.year, 4) \o Pad(dt.month, 2) \o Pad(dt.day, 2) \o <<"T">> \o
    Pad(dt.hour, 2) \o <<":">> \o Pad(dt.minute, 2) \o <<":">> \o
    Pad(dt.second, 2)

(***************************************************************************)
(* base64::encode: standard alphabet, padded.  Bytes are 0..255.           *)
(***************************************************************************)
B64 ==
    <<"A", "B", "C", "D", "E", "F", "G", "H", "I", "J", "K", "L", "M",
      "N", "O", "P", "Q", "R", "S", "T", "U", "V", "W", "X", "Y", "Z",
      "a", "b", "c", "d", "e", "f", "g", "h", "i", "j", "k", "l", "m",
      "n", "o", "p", "q", "r", "s", "t", "u", "v", "w", "x", "y", "z",
      "0", "1", "2", "3", "4", "5", "6", "7", "8", "9", "+", "/">>

B64Char(n) == B64[n + 1]

RECURSIVE encode(_)
encode(b) ==
    IF Len(b) = 0 THEN <<>>
    ELSE IF Len(b) = 1 THEN
        <<B64Char(b[1] \div 4), B64Char((b[1] % 4) * 16), "=", "=">>
    ELSE IF Len(b) = 2 THEN
        <<B64Char(b[1] \div 4),
          B64Char((b[1] % 4) * 16 + b[2] \div 16),
          B64Char((b[2] % 16) * 4), "=">>
    ELSE
        <<B64Char(b[1] \div 4),
          B64Char((b[1] % 4) * 16 + b[2] \div 16),
          B64Char((b[2] % 16) * 4 + b[3] \div 64),
          B64Char(b[3] % 64)>> \o encode(SubSeq(b, 4, Len(b)))

(***************************************************************************)
(* utils::escape_xml: & and < are replaced by their entities, every other  *)
(* character is copied.                                                    *)
(***************************************************************************)
EscapeChar(c) ==
    IF c = "&" THEN <<"&", "a", "m", "p", ";">>
    ELSE IF c = "<" THEN <<"&", "l", "t", ";">>
    ELSE <<c>>

RECURSIVE escape_xml(_)
escape_xml(s) ==
    IF s = <<>> THEN <<>> ELSE EscapeChar(Head(s)) \o escape_xml(Tail(s))

(***************************************************************************)
(* The lines of format that carry a payload.                               *)
(***************************************************************************)
I4Line(i) == writeln(<<"<", "i", "4", ">">> \o DisplayInt(i) \o
                     <<"<", "/", "i", "4", ">">>)

I8Line(i) == writeln(<<"<", "i", "8", ">">> \o DisplayInt(i) \o
                     <<"<", "/", "i", "8", ">">>)

BooleanLine(b) ==
    writeln(<<"<", "b", "o", "o", "l", "e", "a", "n", ">">> \o
            (IF b THEN <<"1">> ELSE <<"0">>) \o
            <<"<", "/", "b", "o", "o", "l", "e", "a", "n", ">">>)

\* StringLine without the call of escape_xml.
StringLineRaw(s) == writeln(TString \o View(s) \o TStringEnd)

\* writeln!(fmt, "<string>{}</string>", escape_xml(s))
StringLine(s) == writeln(TString \o escape_xml(View(s)) \o TStringEnd)

DoubleLine(d) ==
    writeln(<<"<", "d", "o", "u", "b", "l", "e", ">">> \o DisplayDouble(d) \o
            <<"<", "/", "d", "o", "u", "b", "l", "e", ">">>)

DateTimeLine(dt) ==
    writeln(<<"<", "d", "a", "t", "e", "T", "i", "m", "e", ".",
              "i", "s", "o", "8", "6", "0", "1", ">">> \o
            format_datetime(dt) \o
            <<"<", "/", "d", "a", "t", "e", "T", "i", "m", "e", ".",
              "i", "s", "o", "8", "6", "0", "1", ">">>)

Base64Line(data) ==
    writeln(<<"<", "b", "a", "s", "e", "6", "4", ">">> \o encode(View(data)) \o
            <<"<", "/", "b", "a", "s", "e", "6", "4", ">">>)

NameLine(name) == writeln(TName \o escape_xml(View(name)) \o TNameEnd)

(***************************************************************************)
(* One activation of format is a frame [val, pc, idx, fmt]: the value      *)
(* (self), the statement it is at, the position of its for loop and the    *)
(* sink (fmt) it was given.  pc names the statement by what it writes.     *)
(***************************************************************************)
Frame(v, sink) == [val |-> v, pc |-> "value", idx |-> 0, fmt |-> sink]

\* The statements that are a try!(writeln!(fmt, ...)).
WritePcs == {"value", "i4", "i8", "boolean", "string", "double", "dateTime",
             "base64", "struct", "member", "name", "member_end", "struct_end",
             "array", "data", "data_end", "array_end", "nil", "value_end"}

\* The statements that are a try!(value.format(fmt)).
CallPcs == {"member_value", "item"}

\* A frame whose callee is running or has just returned.
WaitPcs == {"member_value_ret", "item_ret"}

\* LineAt with the two closing lines of the Array arm exchanged.
LineAtEndsSwapped(f) ==
    CASE f.pc = "value" -> writeln(TValue)
      [] f.pc = "i4" -> I4Line(f.val.i)
      [] f.pc = "i8" -> I8Line(f.val.i)
      [] f.pc = "boolean" -> BooleanLine(f.val.b)
      [] f.pc = "string" -> StringLine(f.val.s)
      [] f.pc = "double" -> DoubleLine(f.val.d)
      [] f.pc = "dateTime" -> DateTimeLine(f.val.dt)
      [] f.pc = "base64" -> Base64Line(f.val.bytes)
      [] f.pc = "struct" -> writeln(TStruct)
      [] f.pc = "member" -> writeln(TMember)
      [] f.pc = "name" -> NameLine(View(f.val.map)[f.idx][1])
      [] f.pc = "member_end" -> writeln(TMemberEnd)
      [] f.pc = "struct_end" -> writeln(TStructEnd)
      [] f.pc = "array" -> writeln(TArray)
      [] f.pc = "data" -> writeln(TData)
      [] f.pc = "data_end" -> writeln(TArrayEnd)
      [] f.pc = "array_end" -> writeln(TDataEnd)
      [] f.pc = "nil" -> writeln(TNil)
      [] f.pc = "value_end" -> writeln(TValueEnd)

\* What the writeln! at f.pc writes.
LineAt(f) ==
    CASE f.pc = "value" -> writeln(TValue)
      [] f.pc = "i4" -> I4Line(f.val.i)
      [] f.pc = "i8" -> I8Line(f.val.i)
      [] f.pc = "boolean" -> BooleanLine(f.val.b)
      [] f.pc = "string" -> StringLine(f.val.s)
      [] f.pc = "double" -> DoubleLine(f.val.d)
      [] f.pc = "dateTime" -> DateTimeLine(f.val.dt)
      [] f.pc = "base64" -> Base64Line(f.val.bytes)
      [] f.pc = "struct" -> writeln(TStruct)
      [] f.pc = "member" -> writeln(TMember)
      [] f.pc = "name" -> NameLine(View(f.val.map)[f.idx][1])
      [] f.pc = "member_end" -> writeln(TMemberEnd)
      [] f.pc = "struct_end" -> writeln(TStructEnd)
      [] f.pc = "array" -> writeln(TArray)
      [] f.pc = "data" -> writeln(TData)
      [] f.pc = "data_end" -> writeln(TDataEnd)
      [] f.pc = "array_end" -> writeln(TArrayEnd)
      [] f.pc = "nil" -> writeln(TNil)
      [] f.pc = "value_end" -> writeln(TValueEnd)

\* match *self: the arm of each variant.
MatchArm(v) ==
    CASE v.tag = "Int" -> "i4"
      [] v.tag = "Int64" -> "i8"
      [] v.tag = "Bool" -> "boolean"
      [] v.tag = "String" -> "string"
      [] v.tag = "Double" -> "double"
      [] v.tag = "DateTime" -> "dateTime"
      [] v.tag = "Base64" -> "base64"
      [] v.tag = "Struct" -> "struct"
      [] v.tag = "Array" -> "array"
      [] v.tag = "Nil" -> "nil"

\* StructLoop as it would be if the loop did not move on after a member.
StructLoopNoAdvance(f, i) ==
    LET j == IF i > 1 THEN i - 1 ELSE i IN
    IF j <= Len(View(f.val.map))
    THEN [f EXCEPT !.pc = "member", !.idx = j]
    ELSE [f EXCEPT !.pc = "struct_end", !.idx = j]

\* StructLoop as it would be if members were keyed by name, a name seen
\* before being passed over.
RECURSIVE NextNewName(_, _)
NextNewName(pairs, i) ==
    IF i > Len(pairs) THEN i
    ELSE IF \E k \in 1..(i - 1) : View(pairs[k][1]) = View(pairs[i][1])
         THEN NextNewName(pairs, i + 1)
         ELSE i

StructLoopDedup(f, i) ==
    LET j == NextNewName(View(f.val.map), i) IN
    IF j <= Len(View(f.val.map))
    THEN [f EXCEPT !.pc = "member", !.idx = j]
    ELSE [f EXCEPT !.pc = "struct_end", !.idx = j]

\* for (ref name, ref value) in map: the i-th turn of the loop, or its end.
StructLoop(f, i) ==
    IF i <= Len(View(f.val.map))
    THEN [f EXCEPT !.pc = "member", !.idx = i]
    ELSE [f EXCEPT !.pc = "struct_end", !.idx = i]

\* ArrayLoop as it would be if the loop stopped one item early.
ArrayLoopSkipLast(f, i) ==
    IF i < Len(View(f.val.array))
    THEN [f EXCEPT !.pc = "item", !.idx = i]
    ELSE [f EXCEPT !.pc = "data_end", !.idx = i]

\* for value in array: the i-th turn of the loop, or its end.
ArrayLoop(f, i) ==
    IF i <= Len(View(f.val.array))
    THEN [f EXCEPT !.pc = "item", !.idx = i]
    ELSE [f EXCEPT !.pc = "data_end", !.idx = i]

\* The frame after the writeln! at f.pc succeeded.
AfterWrite(f) ==
    CASE f.pc = "value" -> [f EXCEPT !.pc = MatchArm(f.val)]
      [] f.pc \in {"i4", "i8", "boolean", "string", "double", "dateTime",
                   "base64", "nil", "struct_end", "array_end"} ->
            [f EXCEPT !.pc = "value_end"]
      [] f.pc = "struct" -> StructLoop(f, 1)
      [] f.pc = "member" -> [f EXCEPT !.pc = "name"]
      [] f.pc = "name" -> [f EXCEPT !.pc = "member_value"]
      [] f.pc = "member_end" -> StructLoop(f, f.idx + 1)
      [] f.pc = "array" -> [f EXCEPT !.pc = "data"]
      [] f.pc = "data" -> ArrayLoop(f, 1)
      [] f.pc = "data_end" -> [f EXCEPT !.pc = "array_end"]
      [] f.pc = "value_end" -> [f EXCEPT !.pc = "return"]

\* AfterCall as it would be if </member> were not written after the value.
AfterCallNoMemberEnd(f) ==
    IF f.pc = "member_value_ret"
    THEN StructLoop(f, f.idx + 1)
    ELSE ArrayLoop(f, f.idx + 1)

\* The frame after its try!(value.format(fmt)) got Ok.
AfterCall(f) ==
    IF f.pc = "member_value_ret"
    THEN [f EXCEPT !.pc = "member_end"]
    ELSE ArrayLoop(f, f.idx + 1)

\* The value a call site formats.
Callee(f) ==
    IF f.pc = "member_value"
    THEN View(f.val.map)[f.idx][2]
    ELSE View(f.val.array)[f.idx]

(***************************************************************************)
(* io::Result<()>.  A sink's error is identified by the write it refused.  *)
(***************************************************************************)
NoResult == [kind |-> "None", e |-> 0]

Ok == [kind |-> "Ok", e |-> 0]

Err(e) == [kind |-> "Err", e |-> e]

(***************************************************************************)
(* The values format is called on.                                         *)
(***************************************************************************)
\* All sequences over S of length at most n.
SeqsUpTo(S, n) == UNION {[1..k -> S] : k \in 0..n}

Chars == {"&", "<", ">", ";", "a", "\n"}

Bytes == {0, 77, 255}

Doubles ==
    {[cls |-> "nan", neg |-> FALSE, int |-> 0, frac |-> <<>>],
     [cls |-> "inf", neg |-> FALSE, int |-> 0, frac |-> <<>>],
     [cls |-> "inf", neg |-> TRUE, int |-> 0, frac |-> <<>>],
     [cls |-> "finite", neg |-> FALSE, int |-> 3, frac |-> <<>>],
     [cls |-> "finite", neg |-> TRUE, int |-> 1, frac |-> <<5>>]}

DateTimes ==
    {[year |-> 1998, month |-> 7, day |-> 17,
      hour |-> 14, minute |-> 8, second |-> 55]}

\* Integers are kept within the range TLC computes in.
Scalars ==
    {Int32(i) : i \in {0 - 7, 0, 42}} \cup
    {Int64(i) : i \in {0 - 1, 2147483647}} \cup
    {Bool(b) : b \in BOOLEAN} \cup
    {String(Owned(s)) : s \in SeqsUpTo(Chars, MaxLen)} \cup
    {String(Borrowed(s)) : s \in SeqsUpTo({"&", "<"}, 1)} \cup
    {Double(d) : d \in Doubles} \cup
    {DateTime(dt) : dt \in DateTimes} \cup
    {Base64(Owned(b)) : b \in SeqsUpTo(Bytes, MaxLen + 1)} \cup
    {Nil}

\* The values of the tests escapes_strings and escapes_struct_member_names.
TestString == String(Borrowed(<<"<", "x", "m", "l", ">", "&", "n", "b", "s", "p", ";", "s", "t", "r",
                          "i", "n", "g">>))

TestStruct ==
    Struct(Owned(<<<<Owned(<<"x", "&", "<", "x">>), Bool(TRUE)>>>>))

\* The scalars put inside containers, and the member names of structs.
SmallLeaves == {Nil, String(Owned(<<"<", "&">>))}

MemberNames == {Borrowed(<<"a">>), Borrowed(<<"x", "&", "<", "x">>)}

\* The container trees of exactly n nodes, and the sequences of trees of n
\* nodes in all.
RECURSIVE TreesOfSize(_), Forests(_)
TreesOfSize(n) ==
    IF n = 1
    THEN SmallLeaves \cup {Array(Borrowed(<<>>)), Struct(Owned(<<>>))}
    ELSE {Array(Borrowed(f)) : f \in Forests(n - 1)} \cup
         UNION {{Struct(Owned([k \in 1..Len(f) |-> <<nm[k], f[k]>>])) :
                    nm \in [1..Len(f) -> MemberNames]} : f \in Forests(n - 1)}

Forests(n) ==
    IF n = 0 THEN {<<>>}
    ELSE UNION {{<<t>> \o f : t \in TreesOfSize(s), f \in Forests(n - s)} :
                   s \in 1..n}

Values ==
    Scalars \cup {TestString, TestStruct} \cup
    UNION {TreesOfSize(n) : n \in 1..MaxNodes}

\* The values of the concurrent calls: one content in each ownership mode.
ParValues ==
    {Nil} \cup
    {Array(c) : c \in {Borrowed(<<Nil>>), Owned(<<Nil>>)}} \cup
    {Struct(c) : c \in {Borrowed(<<<<Owned(<<"<">>), Bool(TRUE)>>>>),
                        Owned(<<<<Borrowed(<<"<">>), Bool(TRUE)>>>>)}}

(***************************************************************************)
(* State.  Each process is one top-level call of format on its own value   *)
(* and its own sink; sink p belongs to process p.                          *)
(***************************************************************************)
Proc == {1, 2}

VARIABLES
    arg,        \* arg[p]: the value process p calls format on
    stack,      \* stack[p]: the activations of format, innermost last
    ret,        \* ret[p]: what the call that returned last returned
    out,        \* out[s]: the text sink s has accepted
    attempts,   \* attempts[s]: the writes issued to sink s
    firstFail,  \* firstFail[s]: the first write sink s refused, 0 if none
    failDepth,  \* failDepth[s]: the depth of recursion at that write
    calls       \* calls[p]: the activations of format so far

vars == <<arg, stack, ret, out, attempts, firstFail, failDepth, calls>>

Top(p) == stack[p][Len(stack[p])]

Pop(p) == SubSeq(stack[p], 1, Len(stack[p]) - 1)

SetTop(p, f) == [stack[p] EXCEPT ![Len(stack[p])] = f]

Running(p) == stack[p] # <<>>

Done(p) == stack[p] = <<>> /\ ret[p] # NoResult

Start(started, vs) ==
    /\ arg = [p \in Proc |-> IF p \in started THEN vs[p] ELSE Nil]
    /\ stack = [p \in Proc |->
                   IF p \in started THEN <<Frame(vs[p], p)>> ELSE <<>>]
    /\ ret = [p \in Proc |-> NoResult]
    /\ out = [s \in Proc |-> <<>>]
    /\ attempts = [s \in Proc |-> 0]
    /\ firstFail = [s \in Proc |-> 0]
    /\ failDepth = [s \in Proc |-> 0]
    /\ calls = [p \in Proc |-> IF p \in started THEN 1 ELSE 0]

\* One call of format.
Init == \E v \in Values : Start({1}, [p \in Proc |-> v])

\* Two concurrent calls of format.
InitPar == \E vs \in [Proc -> ParValues] : Start(Proc, vs)

(***************************************************************************)
(* The steps of format.                                                    *)
(***************************************************************************)
\* try!(writeln!(fmt, ...)) and the sink accepts the line.
WriteOk(self) ==
    /\ Running(self)
    /\ Top(self).pc \in WritePcs
    /\ LET f == Top(self) IN
        /\ out' = [out EXCEPT ![f.fmt] = @ \o LineAt(f)]
        /\ attempts' = [attempts EXCEPT ![f.fmt] = @ + 1]
        /\ stack' = [stack EXCEPT ![self] = SetTop(self, AfterWrite(f))]
    /\ UNCHANGED <<arg, ret, firstFail, failDepth, calls>>

\* try!(writeln!(fmt, ...)) and the sink refuses the write, having taken
\* some of the line or none: try! returns the sink's error.
WriteErr(self) ==
    /\ Running(self)
    /\ Top(self).pc \in WritePcs
    /\ LET f == Top(self) IN
        /\ \E n \in 0..(Len(LineAt(f)) - 1) :
              out' = [out EXCEPT ![f.fmt] = @ \o SubSeq(LineAt(f), 1, n)]
        /\ attempts' = [attempts EXCEPT ![f.fmt] = @ + 1]
        /\ firstFail' = [firstFail EXCEPT ![f.fmt] =
                            IF @ = 0 THEN attempts[f.fmt] + 1 ELSE @]
        /\ failDepth' = [failDepth EXCEPT ![f.fmt] =
                            IF firstFail[f.fmt] = 0 THEN Len(stack[self]) ELSE @]
        /\ ret' = [ret EXCEPT ![self] = Err(attempts[f.fmt] + 1)]
        /\ stack' = [stack EXCEPT ![self] = Pop(self)]
    /\ UNCHANGED <<arg, calls>>

\* Call as it would be if nested calls wrote to one shared sink.
CallSharedSink(self) ==
    /\ Running(self)
    /\ Top(self).pc \in CallPcs
    /\ LET f == Top(self) IN
        stack' = [stack EXCEPT ![self] =
                    Append(SetTop(self, [f EXCEPT !.pc = f.pc \o "_ret"]),
                           Frame(Callee(f), 1))]
    /\ calls' = [calls EXCEPT ![self] = @ + 1]
    /\ ret' = [ret EXCEPT ![self] = NoResult]
    /\ UNCHANGED <<arg, out, attempts, firstFail, failDepth>>

\* value.format(fmt): the callee starts, on the caller's sink.
Call(self) ==
    /\ Running(self)
    /\ Top(self).pc \in CallPcs
    /\ LET f == Top(self) IN
        stack' = [stack EXCEPT ![self] =
                    Append(SetTop(self, [f EXCEPT !.pc = f.pc \o "_ret"]),
                           Frame(Callee(f), f.fmt))]
    /\ calls' = [calls EXCEPT ![self] = @ + 1]
    /\ ret' = [ret EXCEPT ![self] = NoResult]
    /\ UNCHANGED <<arg, out, attempts, firstFail, failDepth>>

\* Return as it would be if an empty struct or array were an error.
ReturnErrOnEmpty(self) ==
    /\ Running(self)
    /\ Top(self).pc = "return"
    /\ ret' = [ret EXCEPT ![self] =
                  IF Top(self).val.tag \in {"Struct", "Array"}
                     /\ Children(Top(self).val) = <<>>
                  THEN Err(0) ELSE Ok]
    /\ stack' = [stack EXCEPT ![self] = Pop(self)]
    /\ UNCHANGED <<arg, out, attempts, firstFail, failDepth, calls>>

\* Ok(()) at the end of format.
Return(self) ==
    /\ Running(self)
    /\ Top(self).pc = "return"
    /\ ret' = [ret EXCEPT ![self] = Ok]
    /\ stack' = [stack EXCEPT ![self] = Pop(self)]
    /\ UNCHANGED <<arg, out, attempts, firstFail, failDepth, calls>>

\* try!(value.format(fmt)) got Ok: the caller goes on.
TryOk(self) ==
    /\ Running(self)
    /\ Top(self).pc \in WaitPcs
    /\ ret[self] = Ok
    /\ stack' = [stack EXCEPT ![self] = SetTop(self, AfterCall(Top(self)))]
    /\ ret' = [ret EXCEPT ![self] = NoResult]
    /\ UNCHANGED <<arg, out, attempts, firstFail, failDepth, calls>>

\* TryErr as it would be if the result of the nested call were dropped.
TryErrIgnored(self) ==
    /\ Running(self)
    /\ Top(self).pc \in WaitPcs
    /\ ret[self].kind = "Err"
    /\ stack' = [stack EXCEPT ![self] = SetTop(self, AfterCall(Top(self)))]
    /\ ret' = [ret EXCEPT ![self] = NoResult]
    /\ UNCHANGED <<arg, out, attempts, firstFail, failDepth, calls>>

\* try!(value.format(fmt)) got Err: the caller returns that error.
TryErr(self) ==
    /\ Running(self)
    /\ Top(self).pc \in WaitPcs
    /\ ret[self].kind = "Err"
    /\ stack' = [stack EXCEPT ![self] = Pop(self)]
    /\ UNCHANGED <<arg, ret, out, attempts, firstFail, failDepth, calls>>

Next ==
    \E self \in Proc :
        \/ WriteOk(self)
        \/ WriteErr(self)
        \/ Call(self)
        \/ Return(self)
        \/ TryOk(self)
        \/ TryErr(self)

Spec == Init /\ [][Next]_vars

SpecPar == InitPar /\ [][Next]_vars

\* format is straight-line sequential code: a call that can take a step
\* takes it.
SpecLive == Init /\ [][Next]_vars /\ WF_vars(Next)

(***************************************************************************)
(* The text format writes when the sink accepts every write, as a          *)
(* function of the value: the sequence of its lines in document order.     *)
(***************************************************************************)
RECURSIVE Flatten(_)
Flatten(ss) == IF ss = <<>> THEN <<>> ELSE Head(ss) \o Flatten(Tail(ss))

RECURSIVE RenderLines(_)
RenderLines(v) ==
    <<writeln(TValue)>> \o
    (CASE v.tag = "Int" -> <<I4Line(v.i)>>
       [] v.tag = "Int64" -> <<I8Line(v.i)>>
       [] v.tag = "Bool" -> <<BooleanLine(v.b)>>
       [] v.tag = "String" -> <<StringLine(v.s)>>
       [] v.tag = "Double" -> <<DoubleLine(v.d)>>
       [] v.tag = "DateTime" -> <<DateTimeLine(v.dt)>>
       [] v.tag = "Base64" -> <<Base64Line(v.bytes)>>
       [] v.tag = "Struct" ->
            <<writeln(TStruct)>> \o
            Flatten([k \in 1..Len(View(v.map)) |->
                       <<writeln(TMember), NameLine(View(v.map)[k][1])>> \o
                       RenderLines(View(v.map)[k][2]) \o
                       <<writeln(TMemberEnd)>>]) \o
            <<writeln(TStructEnd)>>
       [] v.tag = "Array" ->
            <<writeln(TArray), writeln(TData)>> \o
            Flatten([k \in 1..Len(View(v.array)) |->
                       RenderLines(View(v.array)[k])]) \o
            <<writeln(TDataEnd), writeln(TArrayEnd)>>
       [] v.tag = "Nil" -> <<writeln(TNil)>>) \o
    <<writeln(TValueEnd)>>

Render(v) == Flatten(RenderLines(v))

(***************************************************************************)
(* Measures of a value tree.                                               *)
(***************************************************************************)
RECURSIVE SumOf(_)
SumOf(ns) == IF ns = <<>> THEN 0 ELSE Head(ns) + SumOf(Tail(ns))

RECURSIVE MaxOf(_)
MaxOf(ns) ==
    IF ns = <<>> THEN 0
    ELSE LET m == MaxOf(Tail(ns)) IN IF Head(ns) > m THEN Head(ns) ELSE m

RECURSIVE NodeCount(_)
NodeCount(v) ==
    1 + SumOf([k \in 1..Len(Children(v)) |-> NodeCount(Children(v)[k])])

RECURSIVE TreeDepth(_)
TreeDepth(v) ==
    1 + MaxOf([k \in 1..Len(Children(v)) |-> TreeDepth(Children(v)[k])])

\* The value with every Cow replaced by its content: what two values that
\* differ only in ownership have in common.
RECURSIVE Content(_)
Content(v) ==
    CASE v.tag = "String" -> [tag |-> "String", text |-> v.s.data]
      [] v.tag = "Base64" -> [tag |-> "Base64", blob |-> v.bytes.data]
      [] v.tag = "Struct" ->
            [tag |-> "Struct",
             pairs |-> [k \in 1..Len(v.map.data) |->
                          <<v.map.data[k][1].data, Content(v.map.data[k][2])>>]]
      [] v.tag = "Array" ->
            [tag |-> "Array",
             items |-> [k \in 1..Len(v.array.data) |-> Content(v.array.data[k])]]
      [] OTHER -> v

(***************************************************************************)
(* Reading a text back: its lines, and the nesting of its container tags.  *)
(***************************************************************************)
\* The lines of text t, in order: a line runs up to and including its
\* newline, and a last line without one is kept as is.
Lines(t) ==
    LET ends == {i \in 1..Len(t) : t[i] = "\n" \/ i = Len(t)}
        endOf(k) == CHOOSE e \in ends : Cardinality({j \in ends : j <= e}) = k
        startOf(e) == 1 + Cardinality({j \in 1..Len(t) : \E x \in ends : j <= x /\ x < e})
    IN [k \in 1..Cardinality(ends) |-> SubSeq(t, startOf(endOf(k)), endOf(k))]

OpenTags == {TValue, TStruct, TMember, TArray, TData}

CloseTags == {TValueEnd, TStructEnd, TMemberEnd, TArrayEnd, TDataEnd}

CloseOf(tag) == <<"<", "/">> \o Tail(tag)

\* Reading lines ls from the i-th on with the open tags stk (innermost
\* last) and the counts n so far: [ok, open, depth, members, items], where
\* ok says that every line ended in a newline and every closing tag matched
\* the innermost open tag, open is what is left open, depth is the deepest
\* nesting of <value> seen, members the number of <member> lines directly
\* inside the outermost <struct> and items the number of <value> lines
\* directly inside the outermost <data>.
RECURSIVE Nesting(_, _, _, _)
Nesting(ls, i, stk, n) ==
    IF i > Len(ls) THEN [n EXCEPT !.open = stk]
    ELSE LET l == ls[i]
             body == SubSeq(l, 1, Len(l) - 1)
         IN IF l[Len(l)] # "\n" THEN [n EXCEPT !.ok = FALSE, !.open = stk]
            ELSE IF body \in OpenTags
            THEN LET stk2 == Append(stk, body)
                     d == Cardinality({k \in 1..Len(stk2) : stk2[k] = TValue})
                 IN Nesting(ls, i + 1, stk2,
                        [n EXCEPT
                           !.depth = IF d > @ THEN d ELSE @,
                           !.members = IF body = TMember /\ stk = <<TValue, TStruct>>
                                       THEN @ + 1 ELSE @,
                           !.items = IF body = TValue /\ stk = <<TValue, TArray, TData>>
                                     THEN @ + 1 ELSE @])
            ELSE IF body \in CloseTags
            THEN IF stk # <<>> /\ CloseOf(stk[Len(stk)]) = body
                 THEN Nesting(ls, i + 1, SubSeq(stk, 1, Len(stk) - 1), n)
                 ELSE [n EXCEPT !.ok = FALSE, !.open = stk]
            ELSE Nesting(ls, i + 1, stk, n)

Read(t) ==
    Nesting(Lines(t), 1, <<>>,
            [ok |-> TRUE, open |-> <<>>, depth |-> 0, members |-> 0, items |-> 0])

IsPrefix(a, b) == Len(a) <= Len(b) /\ a = SubSeq(b, 1, Len(a))

\* An escaped text read back: [ok, text], where ok says that t is an
\* escaped text (no bare <, and no & but the one that starts &amp; or &lt;)
\* and text is t from position i on with each entity replaced by the
\* character it stands for.
RECURSIVE Unescape(_, _)
Unescape(t, i) ==
    IF i > Len(t) THEN [ok |-> TRUE, text |-> <<>>]
    ELSE LET step(n, c) ==
                 LET r == Unescape(t, i + n)
                 IN [ok |-> r.ok, text |-> <<c>> \o r.text]
             at(w) == i + Len(w) - 1 <= Len(t) /\ SubSeq(t, i, i + Len(w) - 1) = w
         IN IF t[i] = "<" THEN [ok |-> FALSE, text |-> <<>>]
            ELSE IF t[i] = "&"
            THEN IF at(<<"&", "a", "m", "p", ";">>) THEN step(5, "&")
                 ELSE IF at(<<"&", "l", "t", ";">>) THEN step(4, "<")
                 ELSE [ok |-> FALSE, text |-> <<>>]
            ELSE step(1, t[i])

(***************************************************************************)
(* The assertions of the tests of value.rs.                                *)
(***************************************************************************)
ExpectedTestString ==
    <<"<", "v", "a", "l", "u", "e", ">", "\n", "<", "s", "t", "r", "i", "n",
      "g", ">", "&", "l", "t", ";", "x", "m", "l", ">", "&", "a", "m", "p",
      ";", "n", "b", "s", "p", ";", "s", "t", "r", "i", "n", "g", "<", "/",
      "s", "t", "r", "i", "n", "g", ">", "\n", "<", "/", "v", "a", "l", "u",
      "e", ">", "\n">>

ExpectedTestStruct ==
    <<"<", "v", "a", "l", "u", "e", ">", "\n", "<", "s", "t", "r", "u", "c",
      "t", ">", "\n", "<", "m", "e", "m", "b", "e", "r", ">", "\n", "<",
      "n", "a", "m", "e", ">", "x", "&", "a", "m", "p", ";", "&", "l", "t",
      ";", "x", "<", "/", "n", "a", "m", "e", ">", "\n", "<", "v", "a", "l",
      "u", "e", ">", "\n", "<", "b", "o", "o", "l", "e", "a", "n", ">", "1",
      "<", "/", "b", "o", "o", "l", "e", "a", "n", ">", "\n", "<", "/", "v",
      "a", "l", "u", "e", ">", "\n", "<", "/", "m", "e", "m", "b", "e", "r",
      ">", "\n", "<", "/", "s", "t", "r", "u", "c", "t", ">", "\n", "<",
      "/", "v", "a", "l", "u", "e", ">", "\n">>

TestsPass ==
    \A p \in Proc :
        Done(p) /\ ret[p] = Ok =>
            /\ arg[p] = TestString => out[p] = ExpectedTestString
            /\ arg[p] = TestStruct => out[p] = ExpectedTestStruct

(***************************************************************************)
(* Properties of format.                                                   *)
(***************************************************************************)
Succeeded(p) == Done(p) /\ ret[p] = Ok

\* The first n lines of value v's full text, as one text.
FirstLines(v, n) == Flatten(SubSeq(RenderLines(v), 1, n))

\* C1: once a write to a sink has failed, no further write is issued to
\* that sink, at any depth of the recursion, and the top-level call returns
\* the error of that first failed write; it never returns Ok after a
\* failed write.
C1_FirstFailureAborts ==
    \A p \in Proc :
        /\ firstFail[p] # 0 =>
              /\ attempts[p] = firstFail[p]
              /\ Done(p) => ret[p] = Err(firstFail[p])
        /\ Succeeded(p) => firstFail[p] = 0

\* A write failed inside a nested call and the top-level call has returned.
C1_Witness ==
    /\ Done(1)
    /\ ret[1].kind = "Err"
    /\ firstFail[1] # 0
    /\ failDepth[1] >= 2

\* C2: a successful format of Struct(pairs) writes <struct>, then one
\* <member> block per pair in input order (the k-th holding <name> with the
\* escaped k-th name and then the text of the k-th value), then </struct>:
\* exactly Len(pairs) blocks, duplicates of a name included.
C2_StructMembers ==
    \A p \in Proc :
        Succeeded(p) /\ arg[p].tag = "Struct" =>
            LET pairs == arg[p].map.data
                block(k) ==
                    writeln(TMember) \o
                    writeln(TName \o escape_xml(pairs[k][1].data) \o TNameEnd) \o
                    Render(pairs[k][2]) \o
                    writeln(TMemberEnd)
            IN /\ out[p] = writeln(TValue) \o writeln(TStruct) \o
                           Flatten([k \in 1..Len(pairs) |-> block(k)]) \o
                           writeln(TStructEnd) \o writeln(TValueEnd)
               /\ Read(out[p]).members = Len(pairs)

\* A struct of two members of the same name was formatted.
C2_Witness ==
    /\ Succeeded(1)
    /\ arg[1].tag = "Struct"
    /\ Len(arg[1].map.data) = 2
    /\ arg[1].map.data[1][1] = arg[1].map.data[2][1]
    /\ arg[1].map.data[1][2] # arg[1].map.data[2][2]

\* C3: a successful format of Array(items) writes <array>, <data>, then
\* the text of each item in input order, exactly Len(items) <value> blocks,
\* then </data>, </array>; and the deepest nesting of <value> in the output
\* is the depth of the value tree.
C3_ArrayItems ==
    \A p \in Proc :
        Succeeded(p) /\ arg[p].tag = "Array" =>
            LET items == arg[p].array.data IN
            /\ out[p] = writeln(TValue) \o writeln(TArray) \o writeln(TData) \o
                        Flatten([k \in 1..Len(items) |-> Render(items[k])]) \o
                        writeln(TDataEnd) \o writeln(TArrayEnd) \o
                        writeln(TValueEnd)
            /\ Read(out[p]).items = Len(items)
            /\ Read(out[p]).depth = TreeDepth(arg[p])

\* An array of two different items was formatted.
C3_Witness ==
    /\ Succeeded(1)
    /\ arg[1].tag = "Array"
    /\ Len(arg[1].array.data) = 2
    /\ arg[1].array.data[1] # arg[1].array.data[2]

\* The body of the <string> element of the text of a String value: what
\* stands between <value>\n<string> and </string>\n</value>\n.
StringBody(t) ==
    SubSeq(t, Len(writeln(TValue)) + Len(TString) + 1,
           Len(t) - Len(writeln(TStringEnd)) - Len(writeln(TValueEnd)))

C5_WellFormed ==
    \A p \in Proc :
        Succeeded(p) =>
            LET ls == Lines(out[p])
                r == Read(out[p])
            IN /\ Len(ls) >= 2
               /\ ls[1] = writeln(TValue)
               /\ ls[Len(ls)] = writeln(TValueEnd)
               /\ \A k \in 1..Len(ls) : ls[k][Len(ls[k])] = "\n"
               /\ r.ok
               /\ r.open = <<>>

\* A tree three levels deep that holds an array was formatted.
C5_Witness ==
    /\ Succeeded(1)
    /\ TreeDepth(arg[1]) >= 3
    /\ \E k \in 1..Len(Children(arg[1])) : Children(arg[1])[k].tag = "Array"

\* C6: a call whose sink accepted every write returns Ok, whatever the
\* variant, the payload and the nesting of the value.
C6_OnlySinkErrors ==
    \A p \in Proc : Done(p) /\ firstFail[p] = 0 => ret[p] = Ok

\* An array that holds an empty struct was formatted on a sink that
\* accepted every write.
C6_Witness ==
    /\ Done(1)
    /\ firstFail[1] = 0
    /\ arg[1].tag = "Array"
    /\ \E k \in 1..Len(Children(arg[1])) :
          Children(arg[1])[k] = Struct(Owned(<<>>))

\* What a call of format on v alone leaves: Ok and the whole text of v when
\* its sink refused nothing, else the error of the refused write, the k-th,
\* and the text up to some point inside the k-th line.
AloneOutcome(v, sinkRefused, result, text) ==
    IF sinkRefused = 0
    THEN result = Ok /\ text = Render(v)
    ELSE /\ result = Err(sinkRefused)
         /\ sinkRefused <= Len(RenderLines(v))
         /\ IsPrefix(FirstLines(v, sinkRefused - 1), text)
         /\ IsPrefix(text, FirstLines(v, sinkRefused))
         /\ Len(text) < Len(FirstLines(v, sinkRefused))

\* C7: of concurrent calls, each on its own value and sink, every one
\* returns what it returns alone and leaves in its sink what it leaves
\* alone, under every interleaving; at no time does a sink hold text of
\* another call's value.
C7_ConcurrentAsAlone ==
    \A p \in Proc :
        /\ IsPrefix(out[p], Render(arg[p]))
        /\ Done(p) => AloneOutcome(arg[p], firstFail[p], ret[p], out[p])

\* Two calls on different trees ran to their end, one failing inside a
\* nested call, the other succeeding.
C7_Witness ==
    /\ Done(1) /\ Done(2)
    /\ arg[1].tag = "Struct" /\ arg[2].tag = "Array"
    /\ ret[1] = Ok
    /\ ret[2].kind = "Err" /\ failDepth[2] = 2

\* C8: format makes at most one call per node of the value tree, exactly
\* one per node when it succeeds, and the top-level call eventually
\* returns.
C8_Terminates ==
    /\ [](\A p \in Proc :
            /\ calls[p] <= NodeCount(arg[p])
            /\ Succeeded(p) => calls[p] = NodeCount(arg[p]))
    /\ <>Done(1)

\* A tree of three nodes was formatted with three calls.
C8_Witness ==
    /\ Succeeded(1)
    /\ NodeCount(arg[1]) >= 3
    /\ calls[1] = NodeCount(arg[1])

C10_PrefixOfFullText ==
    \A p \in Proc :
        /\ IsPrefix(out[p], Render(arg[p]))
        /\ attempts[p] <= Len(RenderLines(arg[p]))
        /\ firstFail[p] = 0 => out[p] = FirstLines(arg[p], attempts[p])
        /\ firstFail[p] # 0 =>
              /\ IsPrefix(FirstLines(arg[p], attempts[p] - 1), out[p])
              /\ Len(out[p]) < Len(FirstLines(arg[p], attempts[p]))

\* A write inside a nested call was refused after part of its line was
\* taken.
C10_Witness ==
    /\ firstFail[1] # 0
    /\ failDepth[1] >= 2
    /\ out[1] # <<>>
    /\ out[1][Len(out[1])] # "\n"

============================================================================
